---- MODULE Spec2Model ----
(***************************************************************************)
(* Model of src/src/elasticsearch/elasticsearch.go: the record sink that   *)
(* writes batches of records to the datastore through one package-level    *)
(* client handle (esClient).                                               *)
(*                                                                         *)
(* Every caller (goroutine) runs one operation at a time.  An operation is *)
(* cut into steps at each access to the shared handle and at each call     *)
(* into the client library that goes to the network; purely local code     *)
(* between two such points is one step.  A panic ends the process: no      *)
(* action is enabled afterwards.                                           *)
(***************************************************************************)
EXTENDS Naturals, Sequences, FiniteSets, TLC

\* ------------------------------------------------------------------ bounds
NumCallers == 2      \* goroutines that may call the sink concurrently
MaxClients == 2      \* elastic.NewClient succeeds at most this many times
MaxBatch   == 2      \* longest record batch passed to Insert

Callers == 1..NumCallers

\* ------------------------------------------------------------- data model
NilClient == 0                       \* the nil *elastic.Client
NoField   == "<absent>"              \* GetValueForField has no such field
Columns   == {"region", "key"}

\* models.Record as the sink reads it: Topic, GetId(), FormatTimestamp()
\* and the named fields.
Records ==
  [Topic : {"orders", "users"}, Id : {"42"}, Timestamp : {"2024-01-01"},
   Fields : [Columns -> {NoField, "us-east"}]]

RECURSIVE SeqsUpTo(_, _)
SeqsUpTo(S, n) ==
  IF n = 0 THEN {<<>>}
  ELSE LET shorter == SeqsUpTo(S, n - 1)
       IN  shorter \cup {Append(s, x) : s \in {q \in shorter : Len(q) = n - 1}, x \in S}

Batches == SeqsUpTo(Records, MaxBatch)

\* Batches offered while several callers interleave: the interleavings, not
\* the data, are what those runs explore.
GoodRecord == [Topic |-> "orders", Id |-> "42", Timestamp |-> "2024-01-01",
               Fields |-> [c \in Columns |-> "us-east"]]
BareRecord == [Topic |-> "orders", Id |-> "42", Timestamp |-> "2024-01-01",
               Fields |-> [c \in Columns |-> NoField]]
SharedBatches == {<<>>, <<GoodRecord>>, <<GoodRecord, BareRecord>>}

\* Config as the sink reads it (Host and BulkTimeout do not change control
\* flow; the timeout shows as one of the outcomes of the bulk call).
Configs ==
  [Index : {"", "custom"}, IndexColumn : {"", "region"},
   DocIDColumn : {"", "key"}, BlacklistedColumns : {{}, {"region"}}]

NoError == [kind |-> "nil", val |-> ""]
NoRet   == [kind |-> "none", val |-> ""]

\* What BulkService.Do can hand back: a transport error (the timeout
\* included), or a response with its Errors flag and its Failed() items.
FailedLists   == {<<>>, <<"e1">>, <<"e2">>, <<"e1", "e2">>, <<"e2", "e1">>}
BulkResponses == [Errors : BOOLEAN, Failed : FailedLists]
NoResponse    == [Errors |-> FALSE, Failed |-> <<>>]
TransportErrors == {[kind |-> "transport", val |-> "timeout"]}

VARIABLES
  esClient,     \* the package-level handle: NilClient or a client id
  stopped,      \* stopped[c]: client c was created and Stop() ran on it
  created,      \* number of clients elastic.NewClient has returned
  panicked,     \* "no", or why the process panicked
  config,       \* d.config
  callers,      \* the goroutines that call the sink
  op,           \* op[t]: operation caller t is in, or "idle"
  pc,           \* pc[t]: its position in that operation
  client,       \* client[t]: the local `client` / the value GetClient returned
  records,      \* records[t]: Insert's argument
  bulkRequest,  \* bulkRequest[t]: documents added to the bulk request
  ctx,          \* ctx[t]: "none", "active" (acquired) or "cancelled"
  ret,          \* ret[t]: what the operation returned
  reply,        \* reply[t]: what bulkRequest.Do / Ping.Do handed back
  trace         \* trace[t]: what the operation did towards the datastore

vars == <<esClient, stopped, created, panicked, config, callers, op, pc,
          client, records, bulkRequest, ctx, ret, reply, trace>>

\* entry: esClient when the operation was called; connects, failed: calls
\* to NewClient that returned a client, an error; bulks, pings: calls made
\* to BulkService.Do and PingService.Do;
\* handle, stale: the client the last Do went to, and whether it had been
\* stopped by then; sent: documents in the bulk call; acquired: timeout
\* contexts created.
NoTrace == [entry |-> NilClient, connects |-> 0, failed |-> 0, bulks |-> 0,
            pings |-> 0, handle |-> NilClient, stale |-> FALSE, sent |-> 0, acquired |-> 0]
NoReply == [res |-> NoResponse, err |-> NoError]

Live == {c \in 1..created : ~stopped[c]}

InitCommon ==
  /\ esClient = NilClient
  /\ stopped = [c \in 1..MaxClients |-> FALSE]
  /\ created = 0
  /\ panicked = "no"
  /\ op = [t \in Callers |-> "idle"]
  /\ pc = [t \in Callers |-> "idle"]
  /\ client = [t \in Callers |-> NilClient]
  /\ records = [t \in Callers |-> <<>>]
  /\ bulkRequest = [t \in Callers |-> <<>>]
  /\ ctx = [t \in Callers |-> "none"]
  /\ ret = [t \in Callers |-> NoRet]
  /\ reply = [t \in Callers |-> NoReply]
  /\ trace = [t \in Callers |-> NoTrace]

\* Configurations tried while several callers interleave.
SharedConfigs ==
  {c \in Configs : c.Index = "" /\ c.DocIDColumn = "" /\ c.BlacklistedColumns = {}}

Init    == InitCommon /\ callers = Callers /\ config \in SharedConfigs
InitSeq == InitCommon /\ callers = {1} /\ config \in Configs

InputBatches == IF Cardinality(callers) = 1 THEN Batches ELSE SharedBatches

Running(t) == t \in callers /\ panicked = "no"

\* --------------------------------------------------------- pure functions
FieldNotFound(column) == [kind |-> "FieldNotFound", val |-> column]

\* models.Record.GetValueForField
GetValueForField(record, column) ==
  IF column \in DOMAIN record.Fields /\ record.Fields[column] # NoField
  THEN [val |-> record.Fields[column], err |-> NoError]
  ELSE [val |-> "", err |-> FieldNotFound(column)]

\* models.Record.FilteredFieldsJSON
FilteredFieldsJSON(record, blacklist) ==
  [c \in {f \in DOMAIN record.Fields :
             record.Fields[f] # NoField /\ f \notin blacklist} |-> record.Fields[c]]

\* Variant: the suffix is always the timestamp, IndexColumn is not looked at.
getDatabaseIndexByTimestamp(cfg, record) ==
  LET indexPrefix == IF cfg.Index = "" THEN record.Topic ELSE cfg.Index
  IN  [val |-> indexPrefix \o "-" \o record.Timestamp, err |-> NoError]

getDatabaseIndex(cfg, record) ==
  LET indexPrefix == IF cfg.Index = "" THEN record.Topic ELSE cfg.Index
      indexColumn == cfg.IndexColumn
      looked      == GetValueForField(record, indexColumn)
  IN  IF indexColumn # ""
      THEN IF looked.err # NoError
           THEN [val |-> "", err |-> looked.err]
           ELSE [val |-> indexPrefix \o "-" \o looked.val, err |-> NoError]
      ELSE [val |-> indexPrefix \o "-" \o record.Timestamp, err |-> NoError]

getDatabaseDocID(cfg, record) ==
  LET docIDColumn == cfg.DocIDColumn
      looked      == GetValueForField(record, docIDColumn)
  IN  IF docIDColumn # ""
      THEN IF looked.err # NoError
           THEN [val |-> "", err |-> looked.err]
           ELSE [val |-> looked.val, err |-> NoError]
      ELSE [val |-> record.Id, err |-> NoError]

\* One elastic.NewBulkIndexRequest().Index(..).Type(..).Id(..).Doc(..)
BulkIndexRequest(cfg, record, index, docID) ==
  [Index |-> index, Type |-> record.Topic, Id |-> docID,
   Doc |-> FilteredFieldsJSON(record, cfg.BlacklistedColumns)]

\* The loop of buildBulkRequest from position i on, with the requests
\* added so far; the first derivation error ends it with no request.
RECURSIVE buildFrom(_, _, _, _)
buildFrom(cfg, recs, i, added) ==
  IF i > Len(recs) THEN [docs |-> added, err |-> NoError]
  ELSE LET index == getDatabaseIndex(cfg, recs[i])
           docID == getDatabaseDocID(cfg, recs[i])
       IN  IF index.err # NoError THEN [docs |-> <<>>, err |-> index.err]
           ELSE IF docID.err # NoError THEN [docs |-> <<>>, err |-> docID.err]
           ELSE buildFrom(cfg, recs, i + 1,
                          Append(added, BulkIndexRequest(cfg, recs[i], index.val, docID.val)))

\* Variant: a record whose derivation fails is left out and the rest of the
\* batch is still sent.
RECURSIVE buildSkipping(_, _, _, _)
buildSkipping(cfg, recs, i, added) ==
  IF i > Len(recs) THEN [docs |-> added, err |-> NoError]
  ELSE LET index == getDatabaseIndex(cfg, recs[i])
           docID == getDatabaseDocID(cfg, recs[i])
       IN  IF index.err # NoError \/ docID.err # NoError
           THEN buildSkipping(cfg, recs, i + 1, added)
           ELSE buildSkipping(cfg, recs, i + 1,
                  Append(added, BulkIndexRequest(cfg, recs[i], index.val, docID.val)))

buildBulkRequestSkipping(cfg, recs) == buildSkipping(cfg, recs, 1, <<>>)

buildBulkRequest(cfg, recs) == buildFrom(cfg, recs, 1, <<>>)

\* Lines 61-69 of Insert: the value returned once Do has handed back
\* (res, err).
InsertResult(res, err) ==
  IF err = NoError /\ res.Errors /\ Len(res.Failed) > 0
  THEN [kind |-> "item", val |-> Head(res.Failed)]
  ELSE err

\* ------------------------------------------------------------- operations
Panic(t, why) ==
  /\ panicked' = why
  /\ pc' = [pc EXCEPT ![t] = "panic"]

Enter(t, name, first) ==
  /\ Running(t)
  /\ op[t] = "idle"
  /\ op' = [op EXCEPT ![t] = name]
  /\ pc' = [pc EXCEPT ![t] = first]
  /\ trace' = [trace EXCEPT ![t] = [NoTrace EXCEPT !.entry = esClient]]

CallGetClient(t) ==
  /\ Enter(t, "GetClient", "gc_check")
  /\ UNCHANGED <<esClient, stopped, created, panicked, config, callers,
                 client, records, bulkRequest, ctx, ret, reply>>

CallCloseClient(t) ==
  /\ Enter(t, "CloseClient", "cc_check")
  /\ UNCHANGED <<esClient, stopped, created, panicked, config, callers,
                 client, records, bulkRequest, ctx, ret, reply>>

CallInsert(t) ==
  /\ Enter(t, "Insert", "gc_check")
  /\ \E recs \in InputBatches : records' = [records EXCEPT ![t] = recs]
  /\ UNCHANGED <<esClient, stopped, created, panicked, config, callers,
                 client, bulkRequest, ctx, ret, reply>>

CallReadinessCheck(t) ==
  /\ Enter(t, "ReadinessCheck", "gc_check")
  /\ UNCHANGED <<esClient, stopped, created, panicked, config, callers,
                 client, records, bulkRequest, ctx, ret, reply>>

\* GetClient, line 34: if esClient == nil
GetClientCheck(t) ==
  /\ Running(t)
  /\ pc[t] = "gc_check"
  /\ pc' = [pc EXCEPT ![t] = IF esClient = NilClient THEN "gc_new" ELSE "gc_ret"]
  /\ UNCHANGED <<esClient, stopped, created, panicked, config, callers, op,
                 client, records, bulkRequest, ctx, ret, reply, trace>>

\* Variant: a failed NewClient is logged and the nil client is stored and
\* returned instead of panicking.
GetClientNewLogOnly(t) ==
  /\ Running(t)
  /\ pc[t] = "gc_new"
  /\ \/ /\ created < MaxClients
        /\ created' = created + 1
        /\ client' = [client EXCEPT ![t] = created + 1]
        /\ trace' = [trace EXCEPT ![t].connects = @ + 1]
     \/ /\ client' = [client EXCEPT ![t] = NilClient]
        /\ trace' = [trace EXCEPT ![t].failed = @ + 1]
        /\ UNCHANGED created
  /\ pc' = [pc EXCEPT ![t] = "gc_set"]
  /\ UNCHANGED <<esClient, stopped, panicked, config, callers, op, records,
                 bulkRequest, ctx, ret, reply>>

\* GetClient, lines 35-39: elastic.NewClient, panic on error
GetClientNew(t) ==
  /\ Running(t)
  /\ pc[t] = "gc_new"
  /\ \/ /\ created < MaxClients
        /\ created' = created + 1
        /\ client' = [client EXCEPT ![t] = created + 1]
        /\ trace' = [trace EXCEPT ![t].connects = @ + 1]
        /\ pc' = [pc EXCEPT ![t] = "gc_set"]
        /\ UNCHANGED panicked
     \/ /\ Panic(t, "connect")
        /\ trace' = [trace EXCEPT ![t].failed = @ + 1]
        /\ UNCHANGED <<created, client>>
  /\ UNCHANGED <<esClient, stopped, config, callers, op, records,
                 bulkRequest, ctx, ret, reply>>

\* GetClient, line 40: esClient = client
GetClientSet(t) ==
  /\ Running(t)
  /\ pc[t] = "gc_set"
  /\ esClient' = client[t]
  /\ pc' = [pc EXCEPT ![t] = "gc_ret"]
  /\ UNCHANGED <<stopped, created, panicked, config, callers, op, client,
                 records, bulkRequest, ctx, ret, reply, trace>>

\* GetClient, line 42: return esClient, to the caller or to the operation
\* that called it (lines 73, 83).
GetClientReturn(t) ==
  /\ Running(t)
  /\ pc[t] = "gc_ret"
  /\ client' = [client EXCEPT ![t] = esClient]
  /\ pc' = [pc EXCEPT ![t] = CASE op[t] = "Insert" -> "build"
                                [] op[t] = "ReadinessCheck" -> "ping"
                                [] OTHER -> "done"]
  /\ ret' = [ret EXCEPT ![t] = IF op[t] = "GetClient"
                                THEN [kind |-> "client", val |-> ""] ELSE @]
  /\ UNCHANGED <<esClient, stopped, created, panicked, config, callers, op,
                 records, bulkRequest, ctx, reply, trace>>

\* CloseClient, line 46: if esClient != nil
CloseClientCheck(t) ==
  /\ Running(t)
  /\ pc[t] = "cc_check"
  /\ IF esClient # NilClient
     THEN pc' = [pc EXCEPT ![t] = "cc_stop"] /\ UNCHANGED ret
     ELSE /\ pc' = [pc EXCEPT ![t] = "done"]
          /\ ret' = [ret EXCEPT ![t] = [kind |-> "void", val |-> ""]]
  /\ UNCHANGED <<esClient, stopped, created, panicked, config, callers, op,
                 client, records, bulkRequest, ctx, reply, trace>>

\* CloseClient, line 47: esClient.Stop(), on the handle as it is now
CloseClientStop(t) ==
  /\ Running(t)
  /\ pc[t] = "cc_stop"
  /\ IF esClient = NilClient
     THEN Panic(t, "nil") /\ UNCHANGED stopped
     ELSE /\ stopped' = [stopped EXCEPT ![esClient] = TRUE]
          /\ pc' = [pc EXCEPT ![t] = "cc_clear"]
          /\ UNCHANGED panicked
  /\ UNCHANGED <<esClient, created, config, callers, op, client, records,
                 bulkRequest, ctx, ret, reply, trace>>

\* Variant: the stopped client is left in esClient.
CloseClientKeep(t) ==
  /\ Running(t)
  /\ pc[t] = "cc_clear"
  /\ pc' = [pc EXCEPT ![t] = "done"]
  /\ ret' = [ret EXCEPT ![t] = [kind |-> "void", val |-> ""]]
  /\ UNCHANGED <<esClient, stopped, created, panicked, config, callers, op,
                 client, records, bulkRequest, ctx, reply, trace>>

\* CloseClient, line 48: esClient = nil
CloseClientClear(t) ==
  /\ Running(t)
  /\ pc[t] = "cc_clear"
  /\ esClient' = NilClient
  /\ pc' = [pc EXCEPT ![t] = "done"]
  /\ ret' = [ret EXCEPT ![t] = [kind |-> "void", val |-> ""]]
  /\ UNCHANGED <<stopped, created, panicked, config, callers, op, client,
                 records, bulkRequest, ctx, reply, trace>>

\* Insert, line 53 after GetClient returned (lines 83-100), and the early
\* return of lines 54-56.
InsertBuild(t) ==
  /\ Running(t)
  /\ pc[t] = "build"
  /\ LET built == buildBulkRequest(config, records[t])
     IN  IF built.err # NoError
         THEN /\ ret' = [ret EXCEPT ![t] = built.err]
              /\ pc' = [pc EXCEPT ![t] = "done"]
              /\ UNCHANGED bulkRequest
         ELSE /\ bulkRequest' = [bulkRequest EXCEPT ![t] = built.docs]
              /\ pc' = [pc EXCEPT ![t] = "timeout"]
              /\ UNCHANGED ret
  /\ UNCHANGED <<esClient, stopped, created, panicked, config, callers, op,
                 client, records, ctx, reply, trace>>

\* Insert, lines 57-59: context.WithTimeout, defer cancel()
InsertTimeout(t) ==
  /\ Running(t)
  /\ pc[t] = "timeout"
  /\ ctx' = [ctx EXCEPT ![t] = "active"]
  /\ trace' = [trace EXCEPT ![t].acquired = @ + 1]
  /\ pc' = [pc EXCEPT ![t] = "do"]
  /\ UNCHANGED <<esClient, stopped, created, panicked, config, callers, op,
                 client, records, bulkRequest, ret, reply>>

\* Variant: cancel is never called.
NoCancel(state) == state

\* The deferred cancel() of line 59, run when Insert returns or panics.
DeferredCancel(state) == IF state = "active" THEN "cancelled" ELSE state

\* Variant: a bulk call that fails at the transport level is made a second
\* time before Insert returns.
InsertDoRetry(t) ==
  /\ Running(t)
  /\ pc[t] = "do"
  /\ client[t] # NilClient
  /\ ctx' = [ctx EXCEPT ![t] = DeferredCancel(@)]
  /\ \E r \in [res : BulkResponses, err : {NoError}]
                \cup [res : {NoResponse}, err : TransportErrors] :
       /\ reply' = [reply EXCEPT ![t] = r]
       /\ ret' = [ret EXCEPT ![t] = InsertResult(r.res, r.err)]
       /\ trace' = [trace EXCEPT ![t].bulks = IF r.err # NoError THEN @ + 2 ELSE @ + 1,
                                 ![t].handle = client[t],
                                 ![t].stale = stopped[client[t]],
                                 ![t].sent = Len(bulkRequest[t])]
  /\ pc' = [pc EXCEPT ![t] = "done"]
  /\ UNCHANGED <<esClient, stopped, created, panicked, config, callers, op,
                 client, records, bulkRequest>>

\* Insert, lines 60-69: bulkRequest.Do(ctx) on the client the request was
\* built on, then the result.  Do on a nil client dereferences nil.
InsertDo(t) ==
  /\ Running(t)
  /\ pc[t] = "do"
  /\ ctx' = [ctx EXCEPT ![t] = DeferredCancel(@)]
  /\ IF client[t] = NilClient
     THEN Panic(t, "nil") /\ UNCHANGED <<ret, reply, trace>>
     ELSE /\ \E r \in [res : BulkResponses, err : {NoError}]
                      \cup [res : {NoResponse}, err : TransportErrors] :
               /\ reply' = [reply EXCEPT ![t] = r]
               /\ ret' = [ret EXCEPT ![t] = InsertResult(r.res, r.err)]
          /\ trace' = [trace EXCEPT ![t].bulks = @ + 1,
                                    ![t].handle = client[t],
                                    ![t].stale = stopped[client[t]],
                                    ![t].sent = Len(bulkRequest[t])]
          /\ pc' = [pc EXCEPT ![t] = "done"]
          /\ UNCHANGED panicked
  /\ UNCHANGED <<esClient, stopped, created, config, callers, op, client,
                 records, bulkRequest>>

\* Lines 74-79 of ReadinessCheck: the boolean for Ping's error.
ReadinessResult(err) ==
  [kind |-> "bool", val |-> IF err # NoError THEN "false" ELSE "true"]

\* ReadinessCheck, lines 73-79: Ping(..).Do on the client GetClient returned
ReadinessPing(t) ==
  /\ Running(t)
  /\ pc[t] = "ping"
  /\ IF client[t] = NilClient
     THEN Panic(t, "nil") /\ UNCHANGED <<ret, reply, trace>>
     ELSE /\ \E e \in {NoError} \cup TransportErrors :
               /\ reply' = [reply EXCEPT ![t] = [res |-> NoResponse, err |-> e]]
               /\ ret' = [ret EXCEPT ![t] = ReadinessResult(e)]
          /\ trace' = [trace EXCEPT ![t].pings = @ + 1,
                                    ![t].handle = client[t],
                                    ![t].stale = stopped[client[t]]]
          /\ pc' = [pc EXCEPT ![t] = "done"]
          /\ UNCHANGED panicked
  /\ UNCHANGED <<esClient, stopped, created, config, callers, op, client,
                 records, bulkRequest, ctx>>

\* The operation has returned to its caller, which goes on.
Return(t) ==
  /\ Running(t)
  /\ pc[t] = "done"
  /\ op' = [op EXCEPT ![t] = "idle"]
  /\ pc' = [pc EXCEPT ![t] = "idle"]
  /\ client' = [client EXCEPT ![t] = NilClient]
  /\ records' = [records EXCEPT ![t] = <<>>]
  /\ bulkRequest' = [bulkRequest EXCEPT ![t] = <<>>]
  /\ ctx' = [ctx EXCEPT ![t] = "none"]
  /\ ret' = [ret EXCEPT ![t] = NoRet]
  /\ reply' = [reply EXCEPT ![t] = NoReply]
  /\ trace' = [trace EXCEPT ![t] = NoTrace]
  /\ UNCHANGED <<esClient, stopped, created, panicked, config, callers>>

Next ==
  \E t \in Callers :
    \/ CallGetClient(t)
    \/ CallCloseClient(t)
    \/ CallInsert(t)
    \/ CallReadinessCheck(t)
    \/ GetClientCheck(t)
    \/ GetClientNew(t)
    \/ GetClientSet(t)
    \/ GetClientReturn(t)
    \/ CloseClientCheck(t)
    \/ CloseClientStop(t)
    \/ CloseClientClear(t)
    \/ InsertBuild(t)
    \/ InsertTimeout(t)
    \/ InsertDo(t)
    \/ ReadinessPing(t)
    \/ Return(t)

\* Several callers interleave on the shared handle.
Spec == Init /\ [][Next]_vars

\* One caller: operations follow one another.
SpecSeq == InitSeq /\ [][Next]_vars

\* ------------------------------------------------------------ properties
\* The properties speak of records, configuration and results in their own
\* terms, not through the operators the actions are built from.

ColumnAbsent(record, column) == column # "" /\ record.Fields[column] = NoField

DerivationFails(record) ==
  \/ ColumnAbsent(record, config.IndexColumn)
  \/ ColumnAbsent(record, config.DocIDColumn)

SomeDerivationFails(recs) == \E i \in 1..Len(recs) : DerivationFails(recs[i])

\* The error of the first record whose derivation fails; the index name is
\* derived before the document id.
FirstDerivationError(recs) ==
  LET i == CHOOSE k \in 1..Len(recs) :
             DerivationFails(recs[k]) /\ \A j \in 1..(k - 1) : ~DerivationFails(recs[j])
  IN  [kind |-> "FieldNotFound",
       val  |-> IF ColumnAbsent(recs[i], config.IndexColumn)
                THEN config.IndexColumn ELSE config.DocIDColumn]

PastBuild(t) == op[t] = "Insert" /\ pc[t] \in {"timeout", "do", "done"}
Returned(t, name) == op[t] = name /\ pc[t] = "done"

\* C1: once Insert has gone through a batch in which the derivation of
\* some record fails, it has returned the error of the first such record,
\* has built no bulk request and has made no bulk call: nothing is sent,
\* the records before the failing one included.
C1_DerivationErrorAborts ==
  \A t \in Callers :
    (PastBuild(t) /\ SomeDerivationFails(records[t])) =>
      /\ pc[t] = "done"
      /\ ret[t] = FirstDerivationError(records[t])
      /\ bulkRequest[t] = <<>>
      /\ trace[t].bulks = 0
      /\ trace[t].sent = 0

C1_Witness ==
  \E t \in Callers :
    /\ Returned(t, "Insert")
    /\ Len(records[t]) = 2
    /\ ~DerivationFails(records[t][1])
    /\ DerivationFails(records[t][2])
    /\ ret[t].kind = "FieldNotFound"

\* C2: at most one client that was created and not stopped exists at any
\* time, whatever the interleaving of the callers.
C2_AtMostOneLiveClient == Cardinality(Live) <= 1

\* C3: ReadinessCheck never ends in a panic; it returns a boolean, true
\* exactly when its one ping succeeded.
C3_ReadinessNeverFails ==
  \A t \in Callers :
    op[t] = "ReadinessCheck" =>
      /\ pc[t] # "panic"
      /\ pc[t] = "done" =>
            /\ ret[t].kind = "bool"
            /\ ret[t].val = "true" <=> (trace[t].pings = 1 /\ reply[t].err = NoError)

\* C4: when the bulk call succeeded at the transport level, Insert returns
\* an error built from the first failed item if the response has its
\* Errors flag set, whatever its failed items are, and nil only if the
\* flag is not set.
C4_ItemFailureReturned ==
  \A t \in Callers :
    (Returned(t, "Insert") /\ trace[t].bulks = 1 /\ reply[t].err = NoError) =>
      /\ reply[t].res.Errors =>
            /\ ret[t].kind = "item"
            /\ Len(reply[t].res.Failed) > 0 => ret[t].val = reply[t].res.Failed[1]
      /\ ret[t] = NoError => ~reply[t].res.Errors

\* The address the sink is to give the document of a record.
ExpectedIndex(record) ==
  (IF config.Index # "" THEN config.Index ELSE record.Topic) \o "-" \o
  (IF config.IndexColumn # "" THEN record.Fields[config.IndexColumn]
                              ELSE record.Timestamp)

ExpectedDocID(record) ==
  IF config.DocIDColumn # "" THEN record.Fields[config.DocIDColumn] ELSE record.Id

\* C5: for a batch whose records all have the configured columns, the
\* bulk request holds one document per record, in batch order, with index
\* "<prefix>-<suffix>", type the record's topic and the derived id; that
\* many documents are what the bulk call sends.
C5_DocumentAddress ==
  \A t \in Callers :
    (PastBuild(t) /\ ~SomeDerivationFails(records[t])) =>
      /\ Len(bulkRequest[t]) = Len(records[t])
      /\ \A i \in 1..Len(records[t]) :
            /\ bulkRequest[t][i].Index = ExpectedIndex(records[t][i])
            /\ bulkRequest[t][i].Type = records[t][i].Topic
            /\ bulkRequest[t][i].Id = ExpectedDocID(records[t][i])
      /\ trace[t].bulks = 1 => trace[t].sent = Len(records[t])

C5_Witness ==
  \E t \in Callers :
    /\ Returned(t, "Insert")
    /\ trace[t].bulks = 1
    /\ config.Index = "custom" /\ config.IndexColumn = "region"
    /\ config.DocIDColumn = "key"
    /\ Len(records[t]) = 2
    /\ records[t][1].Topic = "orders" /\ records[t][2].Topic = "users"
    /\ bulkRequest[t][1] = [Index |-> "custom-us-east", Type |-> "orders",
                             Id |-> "us-east", Doc |-> records[t][1].Fields]
    /\ bulkRequest[t][2].Type = "users"

\* Between operations the handle is either unset with no live client
\* (DISCONNECTED) or the one live client (CONNECTED).
Disconnected == esClient = NilClient /\ Live = {}
Connected    == esClient # NilClient /\ Live = {esClient}

\* C6: with operations following one another: every operation ends in
\* DISCONNECTED or CONNECTED; GetClient, Insert and ReadinessCheck called
\* in DISCONNECTED connect once and end in CONNECTED with a new client,
\* called in CONNECTED they do not connect and keep the handle; CloseClient
\* stops the handle it found and ends in DISCONNECTED; a bulk or ping call
\* goes to the live client in esClient, never to a stopped one.
C6_Lifecycle ==
  \A t \in callers :
    /\ op[t] = "idle" => (Disconnected \/ Connected)
    /\ pc[t] = "done" =>
          /\ Disconnected \/ Connected
          /\ op[t] \in {"GetClient", "Insert", "ReadinessCheck"} =>
                /\ Connected
                /\ client[t] = esClient
                /\ IF trace[t].entry = NilClient
                   THEN trace[t].connects = 1 /\ esClient = created
                   ELSE trace[t].connects = 0 /\ esClient = trace[t].entry
          /\ op[t] = "CloseClient" =>
                /\ Disconnected
                /\ trace[t].connects = 0
                /\ trace[t].entry # NilClient => stopped[trace[t].entry]
          /\ trace[t].bulks + trace[t].pings > 0 =>
                /\ trace[t].handle = esClient
                /\ ~trace[t].stale

\* An Insert that found the handle unset after an earlier close, made the
\* second client and sent its bulk call to it.
C6_Witness ==
  \E t \in callers :
    /\ Returned(t, "Insert")
    /\ trace[t].entry = NilClient
    /\ trace[t].bulks = 1
    /\ trace[t].handle = 2
    /\ stopped[1]

\* C7: with operations following one another, an operation whose
\* NewClient failed has panicked: it has returned nothing, the handle is
\* unset as it was when the operation was called, and the operation has
\* made no bulk and no ping call.  The handle never holds anything but nil
\* or a client NewClient returned.
C7_ConnectFailureFatal ==
  /\ esClient \in {NilClient} \cup 1..created
  /\ \A t \in callers :
       trace[t].failed > 0 =>
         /\ panicked = "connect"
         /\ pc[t] = "panic"
         /\ ret[t] = NoRet
         /\ trace[t].entry = NilClient
         /\ esClient = NilClient
         /\ trace[t].bulks = 0
         /\ trace[t].pings = 0

C7_Witness ==
  \E t \in callers :
    /\ op[t] = "ReadinessCheck"
    /\ trace[t].failed = 1
    /\ panicked = "connect"
    /\ created = 1

\* C8: with operations following one another, an Insert that returned
\* made one bulk call if no derivation failed (the empty batch included)
\* and none otherwise, a ReadinessCheck that returned made one ping, and a
\* call that failed at the transport level is what the operation returned:
\* that error from Insert, false from ReadinessCheck.
C8_OneCallNoRetry ==
  \A t \in callers :
    /\ trace[t].bulks <= 1
    /\ trace[t].pings <= 1
    /\ Returned(t, "Insert") =>
          /\ trace[t].bulks = IF SomeDerivationFails(records[t]) THEN 0 ELSE 1
          /\ trace[t].pings = 0
          /\ reply[t].err # NoError => ret[t] = reply[t].err
    /\ Returned(t, "ReadinessCheck") =>
          /\ trace[t].pings = 1
          /\ trace[t].bulks = 0
          /\ reply[t].err # NoError => ret[t] = [kind |-> "bool", val |-> "false"]

\* The empty batch, whose one bulk call failed at the transport level.
C8_Witness ==
  \E t \in callers :
    /\ Returned(t, "Insert")
    /\ records[t] = <<>>
    /\ trace[t].bulks = 1
    /\ reply[t].err.kind = "transport"
    /\ ret[t].kind = "transport"

\* C9: a timeout context is outstanding only between its creation and the
\* bulk call, after every derivation has succeeded; an Insert creates at
\* most one, and none when a derivation fails; once Insert has returned or
\* panicked its context is cancelled.
C9_TimeoutScoped ==
  \A t \in Callers :
    /\ ctx[t] = "active" =>
          /\ op[t] = "Insert" /\ pc[t] = "do"
          /\ ~SomeDerivationFails(records[t])
          /\ trace[t].bulks = 0
    /\ trace[t].acquired <= 1
    /\ (PastBuild(t) /\ SomeDerivationFails(records[t])) =>
          (trace[t].acquired = 0 /\ ctx[t] = "none")
    /\ (op[t] = "Insert" /\ pc[t] \in {"done", "panic"} /\ trace[t].acquired = 1) =>
          ctx[t] = "cancelled"
    /\ (Returned(t, "Insert") /\ trace[t].bulks = 1) => trace[t].acquired = 1

\* An Insert that returned a per-item failure, its context cancelled.
C9_Witness ==
  \E t \in Callers :
    /\ Returned(t, "Insert")
    /\ ret[t].kind = "item"
    /\ trace[t].acquired = 1
    /\ ctx[t] = "cancelled"

\* C10: every bulk or ping call goes to a client that is not stopped at
\* the moment of the call, and no operation dereferences a nil client.
C10_NoUseAfterClose ==
  /\ panicked # "nil"
  /\ \A t \in Callers :
       trace[t].bulks + trace[t].pings > 0 => ~trace[t].stale

====
